---- MODULE Spec2Model ----
(***************************************************************************)
(* Model of src/main.py: NicoArchiver, the resumable downward crawl over   *)
(* the sm ID space.  One process runs NicoArchiver() and run() once; the   *)
(* progress file persists between processes.                               *)
(***************************************************************************)
EXTENDS Integers, Sequences, FiniteSets, TLC

VARIABLES
    file,               \* progress.json: <<>> when absent, else <<content>>
    progress_data,      \* self.progress_data
    pc,                 \* position of the process in run()
    overBudget,         \* time.time() - self.start_time > EXECUTION_LIMIT_MINUTES * 60
    latest_id,          \* run(): latest_id, <<>> while unset
    processed_ranges,   \* run(): processed_ranges
    current_id,         \* run(): current_id
    start_id_this_run,  \* run(): start_id_this_run
    end_id_this_run,    \* run(): end_id_this_run
    written,            \* files this process has written: <<id, extension>>
    attempts,           \* history: the IDs handed to the per-ID fetch, in order, with its result
    hist,               \* history: what this process observed at its milestones
    arg,                \* the input of the function under study (function specifications)
    ret                 \* what the function under study returned for arg

vars == <<file, progress_data, pc, overBudget, latest_id, processed_ranges,
          current_id, start_id_this_run, end_id_this_run, written, attempts, hist,
          arg, ret>>

-----------------------------------------------------------------------------
\* Program constants

VIDEO_PREFIX == "sm"
OLDEST_VIDEO_ID == 9
RETRY_COUNT == 5
FRONTIER_OFFSET == 10000

\* Model bounds
MaxRangeId == 3         \* _merge_ranges is studied on ranges over 1..MaxRangeId
MaxRanges == 3          \* and on lists of at most MaxRanges ranges
ShardSpread == 2        \* _get_path_for_id is studied on IDs this near a bucket edge
MaxNewIds == 3          \* adjusted frontiers reach OLDEST_VIDEO_ID + MaxNewIds
BelowFloor == 1         \* adjusted frontiers start BelowFloor under OLDEST_VIDEO_ID

\* The IDs the snapshot search can name as the newest one.
LatestIds ==
    (OLDEST_VIDEO_ID + FRONTIER_OFFSET - BelowFloor) ..
    (OLDEST_VIDEO_ID + FRONTIER_OFFSET + MaxNewIds)

None == <<>>
Some(x) == <<x>>

-----------------------------------------------------------------------------
\* _load_progress / _save_progress

DefaultProgress ==
    [p \in {"sm", "nm", "so"} |->
        [processed_ranges |-> <<>>, last_known_id |-> None]]

\* Variant of load_progress that reads the three prefixes it knows.
load_progress_known ==
    IF file = <<>> THEN DefaultProgress
    ELSE [p \in {"sm", "nm", "so"} |->
             IF p \in DOMAIN file[1] THEN file[1][p]
             ELSE [processed_ranges |-> <<>>, last_known_id |-> None]]

load_progress == IF file = <<>> THEN DefaultProgress ELSE file[1]

-----------------------------------------------------------------------------
\* _fetch_with_retry: the statuses the server answers with, one per attempt

\* ("204" stands for the 2xx statuses other than 200, "error" for a
\* requests.RequestException)
Statuses == {"200", "204", "404", "500", "error"}

\* Variant of fetch_from that retries a 404 like any other failure.
RECURSIVE fetch_from_retry404(_, _)
fetch_from_retry404(resps, i) ==
    IF i > RETRY_COUNT \/ i > Len(resps)
    THEN [result |-> "absent", requests |-> i - 1, sleeps |-> i - 1]
    ELSE IF resps[i] = "200"
    THEN [result |-> "content", requests |-> i, sleeps |-> i - 1]
    ELSE fetch_from_retry404(resps, i + 1)

\* The i-th pass of the for loop: requests counts the session.get calls made,
\* sleeps the time.sleep(RETRY_WAIT_SECONDS) calls.
RECURSIVE fetch_from(_, _)
fetch_from(resps, i) ==
    IF i > RETRY_COUNT \/ i > Len(resps)
    THEN [result |-> "absent", requests |-> i - 1, sleeps |-> i - 1]
    ELSE IF resps[i] = "200"
    THEN [result |-> "content", requests |-> i, sleeps |-> i - 1]
    ELSE IF resps[i] = "404"
    THEN [result |-> "absent", requests |-> i, sleeps |-> i - 1]
    ELSE fetch_from(resps, i + 1)

fetch_with_retry(resps) == fetch_from(resps, 1)

RespSeqs == [1..RETRY_COUNT -> Statuses]

FetchResults == {fetch_with_retry(s).result : s \in RespSeqs}

-----------------------------------------------------------------------------
\* _merge_ranges

SortPair(r) == IF r[1] <= r[2] THEN r ELSE <<r[2], r[1]>>

\* sorted(..., key=lambda x: x[0]) is stable: an element goes after the
\* elements whose key is not greater.
InsertByLow(r, s) ==
    LET k == Cardinality({i \in 1..Len(s) : s[i][1] <= r[1]})
    IN  SubSeq(s, 1, k) \o <<r>> \o SubSeq(s, k + 1, Len(s))

\* Variant of SortByLow that leaves the list in the order given.
SortByLowKeep(rs) == rs

RECURSIVE SortByLow(_)
SortByLow(rs) ==
    IF rs = <<>> THEN <<>>
    ELSE InsertByLow(rs[Len(rs)], SortByLow(SubSeq(rs, 1, Len(rs) - 1)))

Max(a, b) == IF a >= b THEN a ELSE b

\* Variant of MergeStep that takes the high bound of the later range.
MergeStepNoMax(merged, cur) ==
    LET last == merged[Len(merged)]
    IN  IF cur[1] <= last[2] + 1
        THEN [merged EXCEPT ![Len(merged)] = <<last[1], cur[2]>>]
        ELSE Append(merged, cur)

\* Variant of MergeStep that combines overlapping ranges only.
MergeStepOverlap(merged, cur) ==
    LET last == merged[Len(merged)]
    IN  IF cur[1] <= last[2]
        THEN [merged EXCEPT ![Len(merged)] = <<last[1], Max(last[2], cur[2])>>]
        ELSE Append(merged, cur)

MergeStep(merged, cur) ==
    LET last == merged[Len(merged)]
    IN  IF cur[1] <= last[2] + 1
        THEN [merged EXCEPT ![Len(merged)] = <<last[1], Max(last[2], cur[2])>>]
        ELSE Append(merged, cur)

RECURSIVE MergeFold(_, _, _)
MergeFold(sorted, i, merged) ==
    IF i > Len(sorted) THEN merged
    ELSE MergeFold(sorted, i + 1, MergeStep(merged, sorted[i]))

merge_ranges(ranges) ==
    IF ranges = <<>> THEN <<>>
    ELSE LET sorted_ranges == SortByLow([i \in 1..Len(ranges) |-> SortPair(ranges[i])])
         IN  MergeFold(sorted_ranges, 2, <<sorted_ranges[1]>>)

\* sorted(..., key=lambda x: x[0], reverse=True), stable as well
InsertByLowDesc(r, s) ==
    LET k == Cardinality({i \in 1..Len(s) : s[i][1] >= r[1]})
    IN  SubSeq(s, 1, k) \o <<r>> \o SubSeq(s, k + 1, Len(s))

RECURSIVE SortByLowDesc(_)
SortByLowDesc(rs) ==
    IF rs = <<>> THEN <<>>
    ELSE InsertByLowDesc(rs[Len(rs)], SortByLowDesc(SubSeq(rs, 1, Len(rs) - 1)))

\* Variant of FirstContaining whose test leaves out the high bound of a range.
FirstContainingOpen(ranges, id) ==
    LET s == SortByLowDesc(ranges)
        hits == {i \in 1..Len(s) : s[i][1] <= id /\ id < s[i][2]}
    IN  IF hits = {} THEN <<>>
        ELSE <<s[CHOOSE i \in hits : \A j \in hits : i <= j]>>

\* The for loop of the walk: the first range, in descending order of low
\* bound, that holds id; <<>> when the loop ends without a break.
FirstContaining(ranges, id) ==
    LET s == SortByLowDesc(ranges)
        hits == {i \in 1..Len(s) : s[i][1] <= id /\ id <= s[i][2]}
    IN  IF hits = {} THEN <<>>
        ELSE <<s[CHOOSE i \in hits : \A j \in hits : i <= j]>>

\* Variant of FullyCovered that wants the range to reach above the frontier.
FullyCoveredAbove(ranges, latest) ==
    /\ ranges # <<>>
    /\ Len(ranges) = 1
    /\ ranges[1][1] <= OLDEST_VIDEO_ID
    /\ ranges[1][2] > latest

\* Variant of FullyCovered that wants the range to be the window itself.
FullyCoveredExact(ranges, latest) ==
    /\ ranges # <<>>
    /\ Len(ranges) = 1
    /\ ranges[1][1] = OLDEST_VIDEO_ID
    /\ ranges[1][2] = latest

\* The reset test of run()
FullyCovered(ranges, latest) ==
    /\ ranges # <<>>
    /\ Len(ranges) = 1
    /\ ranges[1][1] <= OLDEST_VIDEO_ID
    /\ ranges[1][2] >= latest

-----------------------------------------------------------------------------
\* The state after NicoArchiver() in a directory without progress.json

NoHist ==
    [loaded |-> DefaultProgress, fileAtStart |-> <<>>, resolved |-> FALSE,
     merged |-> <<>>, walkRanges |-> <<>>, earlier |-> {},
     firstCheck |-> "none", stop |-> "none", saves |-> 0, last |-> "none"]

Init ==
    /\ file = <<>>
    /\ progress_data = DefaultProgress
    /\ pc = "run"
    /\ overBudget = FALSE
    /\ latest_id = None
    /\ processed_ranges = <<>>
    /\ current_id = 0
    /\ start_id_this_run = 0
    /\ end_id_this_run = -1
    /\ written = {}
    /\ attempts = <<>>
    /\ hist = NoHist
    /\ arg = <<>>
    /\ ret = <<>>

-----------------------------------------------------------------------------
\* NicoArchiver.__init__ of the next process: start_time is taken and the
\* progress file is loaded.

Construct ==
    /\ pc = "exit"
    /\ pc' = "run"
    /\ overBudget' = FALSE
    /\ progress_data' = load_progress
    /\ latest_id' = None
    /\ processed_ranges' = <<>>
    /\ current_id' = 0
    /\ start_id_this_run' = 0
    /\ end_id_this_run' = -1
    /\ written' = {}
    /\ attempts' = <<>>
    /\ hist' = [NoHist EXCEPT
           !.loaded = load_progress, !.fileAtStart = file,
           !.earlier = hist.earlier \cup {attempts[i].id : i \in 1..Len(attempts)}]
    /\ UNCHANGED file
    /\ UNCHANGED <<arg, ret>>

\* The wall clock passes the execution limit; it never comes back.
TimePasses ==
    /\ pc # "exit"
    /\ ~overBudget
    /\ overBudget' = TRUE
    /\ UNCHANGED <<file, progress_data, pc, latest_id, processed_ranges, current_id,
                   start_id_this_run, end_id_this_run, written, attempts, hist>>
    /\ UNCHANGED <<arg, ret>>

\* get_latest_video_id: the fetch result and what the response text holds
\* ("empty", "malformed", or the newest content id).
Bodies ==
    {[kind |-> k, id |-> 0] : k \in {"empty", "malformed"}} \cup
    {[kind |-> "content_id", id |-> n] : n \in LatestIds}

get_latest_video_id(result, body) ==
    IF result = "absent" \/ body.kind # "content_id" THEN None
    ELSE Some(body.id)

\* Variant of run_no_latest that writes the progress file before returning.
run_no_latest_saving ==
    /\ pc = "run"
    /\ \E result \in FetchResults, body \in Bodies :
          get_latest_video_id(result, body) = None
    /\ pc' = "exit"
    /\ file' = <<progress_data>>
    /\ hist' = [hist EXCEPT !.stop = "no_latest", !.saves = @ + 1]
    /\ UNCHANGED <<progress_data, overBudget, latest_id, processed_ranges,
                   current_id, start_id_this_run, end_id_this_run, written, attempts>>
    /\ UNCHANGED <<arg, ret>>

\* run(), lines 156-159: no latest id, return.
run_no_latest ==
    /\ pc = "run"
    /\ \E result \in FetchResults, body \in Bodies :
          get_latest_video_id(result, body) = None
    /\ pc' = "exit"
    /\ hist' = [hist EXCEPT !.stop = "no_latest"]
    /\ UNCHANGED <<file, progress_data, overBudget, latest_id, processed_ranges,
                   current_id, start_id_this_run, end_id_this_run, written, attempts>>
    /\ UNCHANGED <<arg, ret>>

\* Variant of run_begin that saves the progress file once the frontier is known.
run_begin_saving ==
    /\ pc = "run"
    /\ \E result \in FetchResults, body \in Bodies :
          LET got == get_latest_video_id(result, body) IN
          /\ got # None
          /\ LET latest == got[1] - FRONTIER_OFFSET
                 merged == merge_ranges(progress_data[VIDEO_PREFIX].processed_ranges)
                 reset  == FullyCovered(merged, latest)
                 ranges == IF reset THEN <<>> ELSE merged
                 data   == [progress_data EXCEPT ![VIDEO_PREFIX] =
                              [processed_ranges |-> ranges, last_known_id |-> Some(latest)]]
             IN  /\ latest_id' = Some(latest)
                 /\ processed_ranges' = ranges
                 /\ progress_data' = data
                 /\ file' = <<data>>
                 /\ current_id' = latest
                 /\ start_id_this_run' = latest
                 /\ end_id_this_run' = -1
                 /\ hist' = [hist EXCEPT !.resolved = TRUE, !.merged = merged,
                                         !.walkRanges = ranges,
                                         !.earlier = IF reset THEN {} ELSE @,
                                         !.last = "begin", !.saves = @ + 1]
    /\ pc' = "while"
    /\ UNCHANGED <<overBudget, written, attempts>>
    /\ UNCHANGED <<arg, ret>>

\* run(), lines 156-176: the frontier is resolved, the ranges are merged and
\* reset when they cover the window.
run_begin ==
    /\ pc = "run"
    /\ \E result \in FetchResults, body \in Bodies :
          LET got == get_latest_video_id(result, body) IN
          /\ got # None
          /\ LET latest == got[1] - FRONTIER_OFFSET
                 merged == merge_ranges(progress_data[VIDEO_PREFIX].processed_ranges)
                 reset  == FullyCovered(merged, latest)
                 ranges == IF reset THEN <<>> ELSE merged
             IN  /\ latest_id' = Some(latest)
                 /\ processed_ranges' = ranges
                 /\ progress_data' =
                        [progress_data EXCEPT ![VIDEO_PREFIX] =
                            [processed_ranges |-> ranges, last_known_id |-> Some(latest)]]
                 /\ current_id' = latest
                 /\ start_id_this_run' = latest
                 /\ end_id_this_run' = -1
                 /\ hist' = [hist EXCEPT !.resolved = TRUE, !.merged = merged,
                                         !.walkRanges = ranges,
                                         !.earlier = IF reset THEN {} ELSE @,
                                         !.last = "begin"]
    /\ pc' = "while"
    /\ UNCHANGED <<file, overBudget, written, attempts>>
    /\ UNCHANGED <<arg, ret>>

\* Variant of loop_head without the elapsed-time check.
loop_head_unchecked ==
    /\ pc = "while"
    /\ IF current_id >= OLDEST_VIDEO_ID
       THEN /\ pc' = "scan"
            /\ hist' = [hist EXCEPT !.firstCheck = IF @ = "none" THEN "ok" ELSE @]
       ELSE /\ pc' = "commit"
            /\ hist' = [hist EXCEPT !.stop = "floor"]
    /\ UNCHANGED <<file, progress_data, overBudget, latest_id, processed_ranges,
                   current_id, start_id_this_run, end_id_this_run, written, attempts>>
    /\ UNCHANGED <<arg, ret>>

\* Variant of loop_head that does not look at the clock after a skip.
loop_head_skip_free ==
    /\ pc = "while"
    /\ IF current_id >= OLDEST_VIDEO_ID
       THEN LET over == overBudget /\ hist.last # "skip" IN
            /\ pc' = IF over THEN "commit" ELSE "scan"
            /\ hist' = [hist EXCEPT
                   !.firstCheck = IF @ = "none"
                                  THEN (IF over THEN "over" ELSE "ok") ELSE @,
                   !.stop = IF over THEN "budget" ELSE @]
       ELSE /\ pc' = "commit"
            /\ hist' = [hist EXCEPT !.stop = "floor"]
    /\ UNCHANGED <<file, progress_data, overBudget, latest_id, processed_ranges,
                   current_id, start_id_this_run, end_id_this_run, written, attempts>>
    /\ UNCHANGED <<arg, ret>>

\* Lines 178-181: the while condition, then the elapsed-time check.
loop_head ==
    /\ pc = "while"
    /\ IF current_id >= OLDEST_VIDEO_ID
       THEN /\ pc' = IF overBudget THEN "commit" ELSE "scan"
            /\ hist' = [hist EXCEPT
                   !.firstCheck = IF @ = "none"
                                  THEN (IF overBudget THEN "over" ELSE "ok") ELSE @,
                   !.stop = IF overBudget THEN "budget" ELSE @]
       ELSE /\ pc' = "commit"
            /\ hist' = [hist EXCEPT !.stop = "floor"]
    /\ UNCHANGED <<file, progress_data, overBudget, latest_id, processed_ranges,
                   current_id, start_id_this_run, end_id_this_run, written, attempts>>
    /\ UNCHANGED <<arg, ret>>

\* Variant of loop_scan that jumps one ID further than the low bound.
loop_scan_far ==
    /\ pc = "scan"
    /\ LET hit == FirstContaining(processed_ranges, current_id) IN
       IF hit # <<>>
       THEN /\ current_id' = hit[1][1] - 2
            /\ pc' = "while"
            /\ hist' = [hist EXCEPT !.last = "skip"]
       ELSE IF current_id < OLDEST_VIDEO_ID
       THEN /\ pc' = "commit"
            /\ hist' = [hist EXCEPT !.stop = "floor"]
            /\ UNCHANGED current_id
       ELSE /\ pc' = "process"
            /\ UNCHANGED <<current_id, hist>>
    /\ UNCHANGED <<file, progress_data, overBudget, latest_id, processed_ranges,
                   start_id_this_run, end_id_this_run, written, attempts>>
    /\ UNCHANGED <<arg, ret>>

\* Variant of loop_scan that jumps to the high bound of the range.
loop_scan_high ==
    /\ pc = "scan"
    /\ LET hit == FirstContaining(processed_ranges, current_id) IN
       IF hit # <<>>
       THEN /\ current_id' = hit[1][2]
            /\ pc' = "while"
            /\ hist' = [hist EXCEPT !.last = "skip"]
       ELSE IF current_id < OLDEST_VIDEO_ID
       THEN /\ pc' = "commit"
            /\ hist' = [hist EXCEPT !.stop = "floor"]
            /\ UNCHANGED current_id
       ELSE /\ pc' = "process"
            /\ UNCHANGED <<current_id, hist>>
    /\ UNCHANGED <<file, progress_data, overBudget, latest_id, processed_ranges,
                   start_id_this_run, end_id_this_run, written, attempts>>
    /\ UNCHANGED <<arg, ret>>

\* Variant of loop_scan that leaves the cursor on the low bound of the range.
loop_scan_stuck ==
    /\ pc = "scan"
    /\ LET hit == FirstContaining(processed_ranges, current_id) IN
       IF hit # <<>>
       THEN /\ current_id' = hit[1][1]
            /\ pc' = "while"
            /\ hist' = [hist EXCEPT !.last = "skip"]
       ELSE IF current_id < OLDEST_VIDEO_ID
       THEN /\ pc' = "commit"
            /\ hist' = [hist EXCEPT !.stop = "floor"]
            /\ UNCHANGED current_id
       ELSE /\ pc' = "process"
            /\ UNCHANGED <<current_id, hist>>
    /\ UNCHANGED <<file, progress_data, overBudget, latest_id, processed_ranges,
                   start_id_this_run, end_id_this_run, written, attempts>>
    /\ UNCHANGED <<arg, ret>>

\* Lines 183-194: the scan of the processed ranges and the floor test.
loop_scan ==
    /\ pc = "scan"
    /\ LET hit == FirstContaining(processed_ranges, current_id) IN
       IF hit # <<>>
       THEN /\ current_id' = hit[1][1] - 1
            /\ pc' = "while"
            /\ hist' = [hist EXCEPT !.last = "skip"]
       ELSE IF current_id < OLDEST_VIDEO_ID
       THEN /\ pc' = "commit"
            /\ hist' = [hist EXCEPT !.stop = "floor"]
            /\ UNCHANGED current_id
       ELSE /\ pc' = "process"
            /\ UNCHANGED <<current_id, hist>>
    /\ UNCHANGED <<file, progress_data, overBudget, latest_id, processed_ranges,
                   start_id_this_run, end_id_this_run, written, attempts>>
    /\ UNCHANGED <<arg, ret>>

\* What the getthumbinfo document turns out to be once fetched.
Docs == {"empty", "syntax_error", "status_fail", "ok_no_thumb", "ok_thumb_dot", "ok_thumb_plain"}
\* What a thumbnail fetch gives: nothing, zero bytes, or an image.
Images == {"empty", "image"}

Truthy(x) == x # None /\ x # Some("empty")

\* Lines 220-236: the image kept for a document with a thumbnail url.
thumb_img(doc, large, base) ==
    IF doc = "ok_thumb_dot"
    THEN (IF Truthy(large) THEN large ELSE base)
    ELSE base

\* Variant of files_for that writes the metadata file without testing xml_text.
files_for_untested(id, xml_text, large, base) ==
    {<<id, "xml">>} \cup
    (IF xml_text # None
           /\ xml_text[1] \in {"ok_thumb_dot", "ok_thumb_plain"}
           /\ Truthy(thumb_img(xml_text[1], large, base))
     THEN {<<id, "jpg">>} ELSE {})

\* Lines 205-259: the files written for one ID.
files_for(id, xml_text, large, base) ==
    IF ~Truthy(xml_text) THEN {}
    ELSE {<<id, "xml">>} \cup
         (IF xml_text[1] \in {"ok_thumb_dot", "ok_thumb_plain"}
                /\ Truthy(thumb_img(xml_text[1], large, base))
          THEN {<<id, "jpg">>} ELSE {})

Fetched(result, content) == IF result = "absent" THEN None ELSE Some(content)

\* Lines 196-262: one ID is attempted.
loop_process ==
    /\ pc = "process"
    /\ end_id_this_run' = current_id
    /\ \E r \in FetchResults, doc \in Docs,
          rl \in FetchResults, rb \in FetchResults, il \in Images, ib \in Images :
          LET xml_text == Fetched(r, doc) IN
          /\ written' = written \cup
                 files_for(current_id, xml_text, Fetched(rl, il), Fetched(rb, ib))
          /\ attempts' = Append(attempts, [id |-> current_id, absent |-> xml_text = None])
    /\ current_id' = current_id - 1
    /\ pc' = "while"
    /\ hist' = [hist EXCEPT !.last = "attempt"]
    /\ UNCHANGED <<file, progress_data, overBudget, latest_id, processed_ranges,
                   start_id_this_run>>
    /\ UNCHANGED <<arg, ret>>

\* Variant of run_commit that appends the range whether or not an ID was attempted.
run_commit_always ==
    /\ pc = "commit"
    /\ LET ranges == progress_data[VIDEO_PREFIX].processed_ranges
           new_range == <<end_id_this_run, start_id_this_run>>
           saved == [progress_data EXCEPT ![VIDEO_PREFIX].processed_ranges =
                        merge_ranges(Append(ranges, new_range))]
       IN  /\ progress_data' = saved
           /\ file' = <<saved>>
           /\ processed_ranges' = Append(processed_ranges, new_range)
    /\ pc' = "exit"
    /\ hist' = [hist EXCEPT !.saves = @ + 1]
    /\ UNCHANGED <<overBudget, latest_id, current_id,
                   start_id_this_run, end_id_this_run, written, attempts>>
    /\ UNCHANGED <<arg, ret>>

\* Variant of run_commit that takes the cursor for the low bound of the range.
run_commit_cursor ==
    /\ pc = "commit"
    /\ LET ranges == progress_data[VIDEO_PREFIX].processed_ranges
           new_range == <<current_id, start_id_this_run>>
           saved == IF end_id_this_run # -1
                    THEN [progress_data EXCEPT ![VIDEO_PREFIX].processed_ranges =
                             merge_ranges(Append(ranges, new_range))]
                    ELSE progress_data
       IN  /\ progress_data' = saved
           /\ file' = <<saved>>
           /\ processed_ranges' = IF end_id_this_run # -1
                                  THEN Append(processed_ranges, new_range)
                                  ELSE processed_ranges
    /\ pc' = "exit"
    /\ hist' = [hist EXCEPT !.saves = @ + 1]
    /\ UNCHANGED <<overBudget, latest_id, current_id,
                   start_id_this_run, end_id_this_run, written, attempts>>
    /\ UNCHANGED <<arg, ret>>

\* Lines 266-273: the range of this run is appended and merged, the file saved.
run_commit ==
    /\ pc = "commit"
    /\ LET ranges == progress_data[VIDEO_PREFIX].processed_ranges
           new_range == <<end_id_this_run, start_id_this_run>>
           saved == IF end_id_this_run # -1
                    THEN [progress_data EXCEPT ![VIDEO_PREFIX].processed_ranges =
                             merge_ranges(Append(ranges, new_range))]
                    ELSE progress_data
       IN  /\ progress_data' = saved
           /\ file' = <<saved>>
           \* processed_ranges is the list object the append went to
           /\ processed_ranges' = IF end_id_this_run # -1
                                  THEN Append(processed_ranges, new_range)
                                  ELSE processed_ranges
    /\ pc' = "exit"
    /\ hist' = [hist EXCEPT !.saves = @ + 1]
    /\ UNCHANGED <<overBudget, latest_id, current_id,
                   start_id_this_run, end_id_this_run, written, attempts>>
    /\ UNCHANGED <<arg, ret>>

Next ==
    \/ Construct
    \/ TimePasses
    \/ run_no_latest
    \/ run_begin
    \/ loop_head
    \/ loop_scan
    \/ loop_process
    \/ run_commit

Spec == Init /\ [][Next]_vars

-----------------------------------------------------------------------------
\* A process that is not killed takes its next step: every fetch returns
\* after its bounded retries (see fetch_with_retry), and nothing else blocks.
\* The clock and the start of a further process are under no obligation.

\* The steps of run()
run_step ==
    \/ run_no_latest
    \/ run_begin
    \/ loop_head
    \/ loop_scan
    \/ loop_process
    \/ run_commit

\* A step of run() seen from outside: the process leaves its position. Every
\* run_step changes pc, and while a process runs nothing else does.
advance ==
    /\ pc # "exit"
    /\ pc' \in {"while", "scan", "process", "commit", "exit"}
    /\ pc' # pc

FairSpec == Spec /\ WF_pc(advance)

-----------------------------------------------------------------------------
\* Runs in a directory whose progress.json was left by another writer: it
\* holds records of prefixes this program does not drive, and keys it does
\* not know.

OtherFiles ==
    { [sm |-> [processed_ranges |-> <<>>, last_known_id |-> None],
       nm |-> [processed_ranges |-> << <<1, 5>> >>, last_known_id |-> Some(5)],
       so |-> [processed_ranges |-> <<>>, last_known_id |-> None],
       ch |-> [processed_ranges |-> << <<2, 3>>, <<7, 9>> >>, last_known_id |-> Some(9)]],
      [sm |-> [processed_ranges |-> <<>>, last_known_id |-> None],
       nm |-> [processed_ranges |-> << <<4, 4>> >>, last_known_id |-> None]] }

InitKeys ==
    /\ \E f \in OtherFiles :
          /\ file = <<f>>
          /\ progress_data = f
          /\ hist = [NoHist EXCEPT !.loaded = f, !.fileAtStart = <<f>>]
    /\ pc = "run"
    /\ overBudget = FALSE
    /\ latest_id = None
    /\ processed_ranges = <<>>
    /\ current_id = 0
    /\ start_id_this_run = 0
    /\ end_id_this_run = -1
    /\ written = {}
    /\ attempts = <<>>
    /\ arg = <<>>
    /\ ret = <<>>

SpecKeys == InitKeys /\ [][Next]_vars

-----------------------------------------------------------------------------
\* _merge_ranges on its own: a list of ranges is merged, reordered, and
\* merged again.

run_vars == <<file, progress_data, pc, overBudget, latest_id, processed_ranges,
              current_id, start_id_this_run, end_id_this_run, written, attempts, hist>>

\* No process is running
NoRun ==
    /\ file = <<>>
    /\ progress_data = DefaultProgress
    /\ pc = "exit"
    /\ overBudget = FALSE
    /\ latest_id = None
    /\ processed_ranges = <<>>
    /\ current_id = 0
    /\ start_id_this_run = 0
    /\ end_id_this_run = -1
    /\ written = {}
    /\ attempts = <<>>
    /\ hist = NoHist

RangeLists ==
    UNION {[1..n -> (1..MaxRangeId) \X (1..MaxRangeId)] : n \in 0..MaxRanges}

MergeInit ==
    /\ NoRun
    /\ arg \in RangeLists
    /\ ret = None

\* self._merge_ranges(arg)
merge_call ==
    /\ ret' = Some([input |-> arg, output |-> merge_ranges(arg)])
    /\ UNCHANGED <<arg, run_vars>>

\* The caller hands the same ranges over in another order.
merge_permute ==
    /\ \E i \in 1..(Len(arg) - 1) :
          arg' = [arg EXCEPT ![i] = arg[i + 1], ![i + 1] = arg[i]]
    /\ UNCHANGED <<ret, run_vars>>

\* self._merge_ranges(self._merge_ranges(...)): the output is merged again.
merge_again ==
    /\ ret # None
    /\ arg' = ret[1].output
    /\ ret' = Some([input |-> ret[1].output, output |-> merge_ranges(ret[1].output)])
    /\ UNCHANGED run_vars

MergeNext ==
    \/ merge_call
    \/ merge_permute
    \/ merge_again

MergeSpec == MergeInit /\ [][MergeNext]_vars

-----------------------------------------------------------------------------
\* _fetch_with_retry on its own: the server has an answer ready for one
\* request more than the fetch may make.

RespStreams == [1..(RETRY_COUNT + 1) -> Statuses]

FetchInit ==
    /\ NoRun
    /\ arg \in RespStreams
    /\ ret = None

\* self._fetch_with_retry(url)
fetch_call ==
    /\ ret = None
    /\ ret' = Some(fetch_with_retry(arg))
    /\ UNCHANGED <<arg, run_vars>>

FetchNext == fetch_call

FetchSpec == FetchInit /\ [][FetchNext]_vars

-----------------------------------------------------------------------------
\* _get_path_for_id

\* Variant of buckets that divides the ID itself.
buckets_of_id(item_id) ==
    << (item_id \div 1000000) * 1000000 + 1,
       (item_id \div 10000) * 10000 + 1,
       (item_id \div 100) * 100 + 1 >>

\* Lines 57-60: l1, l2, l3
buckets(item_id) ==
    LET item_id_m1 == item_id - 1
    IN  << (item_id_m1 \div 1000000) * 1000000 + 1,
           (item_id_m1 \div 10000) * 10000 + 1,
           (item_id_m1 \div 100) * 100 + 1 >>

\* Lines 62-63: the parts of the path under DATA_ROOT
get_path_for_id(prefix, item_id, extension) ==
    LET l == buckets(item_id)
    IN  << prefix,
           ToString(l[1]) \o "-" \o ToString(l[1] + 999999),
           ToString(l[2]) \o "-" \o ToString(l[2] + 9999),
           ToString(l[3]) \o "-" \o ToString(l[3] + 99),
           ToString(item_id) \o "." \o extension >>

\* IDs on both sides of the edges of the three bucket widths
ShardIds ==
    {n \in {e + d : e \in {0, 100, 200, 10000, 50500, 50600, 60000, 1000000, 2000000},
                    d \in (1 - ShardSpread)..ShardSpread} : n >= 1}
    \cup {50567}

ShardInit ==
    /\ NoRun
    /\ arg \in ShardIds \X ShardIds
    /\ ret = None

\* self._get_path_for_id(VIDEO_PREFIX, id, "xml") for the two IDs of arg
shard_call ==
    /\ ret = None
    /\ ret' = Some([i \in 1..2 |->
                       [buckets |-> buckets(arg[i]),
                        path |-> get_path_for_id(VIDEO_PREFIX, arg[i], "xml")]])
    /\ UNCHANGED <<arg, run_vars>>

ShardNext == shard_call

ShardSpec == ShardInit /\ [][ShardNext]_vars

-----------------------------------------------------------------------------
\* Properties

Ranges(f) == IF f = <<>> THEN <<>> ELSE f[1][VIDEO_PREFIX].processed_ranges

\* The IDs a list of ranges covers
Covered(ranges) ==
    UNION {ranges[i][1]..ranges[i][2] : i \in 1..Len(ranges)}

AttemptedIds == {attempts[i].id : i \in 1..Len(attempts)}

\* C1: a run whose frontier resolver returns absence attempts no ID, leaves
\* every field of the progress record as loaded, and does not save: the
\* progress file is what it was when the process started.
C1_NoLatestNoChange ==
    (pc = "exit" /\ hist.stop = "no_latest") =>
        /\ attempts = <<>>
        /\ written = {}
        /\ progress_data = hist.loaded
        /\ hist.saves = 0
        /\ file = hist.fileAtStart

C1_Witness ==
    /\ pc = "exit"
    /\ hist.stop = "no_latest"
    /\ Len(Ranges(file)) >= 1

\* C2: a run that attempts at least one ID, stopped by the budget or by the
\* floor, commits [end_id_this_run, start_id_this_run], where the high bound
\* is the adjusted frontier and the low bound the last and lowest ID
\* attempted; the saved ranges are the merge of the ranges the walk started
\* with plus that range.
C2_CommittedRange ==
    (pc = "exit" /\ attempts # <<>>) =>
        LET last == attempts[Len(attempts)].id
            adjusted == latest_id[1]
        IN  /\ hist.stop \in {"budget", "floor"}
            /\ start_id_this_run = adjusted
            /\ end_id_this_run = last
            /\ \A id \in AttemptedIds : last <= id /\ id <= adjusted
            /\ hist.saves = 1
            /\ Ranges(file) =
                   merge_ranges(Append(hist.walkRanges, <<last, adjusted>>))

C2_Witness ==
    /\ pc = "exit"
    /\ hist.stop = "budget"
    /\ Len(attempts) >= 2
    /\ hist.walkRanges # <<>>
    /\ Len(Ranges(file)) >= 2

Walking == pc \in {"while", "scan", "process"}

\* The range of the walk's ranges that holds id, as a set of one or none
Holding(id) ==
    {hist.walkRanges[i] : i \in {j \in 1..Len(hist.walkRanges) :
        hist.walkRanges[j][1] <= id /\ id <= hist.walkRanges[j][2]}}

\* C3: while walking, a cursor inside a range [lo, hi] the walk started with
\* moves next to lo - 1, and no ID of such a range is attempted in the run;
\* an ID attempted in an earlier run is not attempted again unless a reset
\* cleared the ranges in between.
C3_SkipProcessed ==
    [][ /\ (Walking /\ current_id' # current_id) =>
               \A r \in Holding(current_id) : current_id' = r[1] - 1
        /\ (Len(attempts') > Len(attempts)) =>
               LET id == attempts'[Len(attempts')].id
               IN  /\ id \notin Covered(hist.walkRanges)
                   /\ id \notin hist.earlier
      ]_vars

C3_Witness ==
    /\ pc = "exit"
    /\ \E i \in 1..Len(hist.walkRanges) :
          /\ hist.walkRanges[i][2] > hist.walkRanges[i][1]
          /\ hist.walkRanges[i][2] + 1 \in AttemptedIds
          /\ hist.walkRanges[i][1] - 1 \in AttemptedIds
    /\ hist.earlier # {}

\* A reset is seen in the run: the merged ranges were not empty and the walk
\* started with none.
ResetHappened == hist.resolved /\ hist.merged # <<>> /\ hist.walkRanges = <<>>

\* C4: when the merged ranges at run start are the single range
\* [floor_id, adjusted_frontier], the ranges are cleared before walking and
\* the walk starts at the adjusted frontier with nothing skipped.
C4_ExactCoverResets ==
    (hist.resolved /\ hist.merged = << <<OLDEST_VIDEO_ID, latest_id[1]>> >>) =>
        /\ hist.walkRanges = <<>>
        /\ Walking => processed_ranges = <<>>
        /\ start_id_this_run = latest_id[1]
        /\ attempts # <<>> => attempts[1].id = latest_id[1]
        /\ (pc = "exit" /\ hist.firstCheck = "ok") => attempts # <<>>

C4_Witness ==
    /\ hist.resolved
    /\ latest_id[1] > OLDEST_VIDEO_ID
    /\ hist.merged = << <<OLDEST_VIDEO_ID, latest_id[1]>> >>
    /\ Len(attempts) >= 2

\* C5 as stated: the ranges are cleared only if the merged list is the
\* single range [floor_id, adjusted_frontier] exactly.
C5_ResetOnlyExact ==
    ResetHappened => hist.merged = << <<OLDEST_VIDEO_ID, latest_id[1]>> >>

\* C5, amended: the ranges are cleared before walking exactly when the merged
\* list is a single range with low <= floor_id and high >= adjusted_frontier;
\* a single range that reaches above the frontier is cleared as well, and for
\* every other list the walk starts with the merged list.
C5_ResetIffCovering ==
    hist.resolved =>
        LET covering == /\ Len(hist.merged) = 1
                        /\ hist.merged[1][1] <= OLDEST_VIDEO_ID
                        /\ hist.merged[1][2] >= latest_id[1]
        IN  /\ covering => hist.walkRanges = <<>>
            /\ ~covering => hist.walkRanges = hist.merged

C5_Witness ==
    /\ ResetHappened
    /\ hist.merged[1][2] > latest_id[1]
    /\ latest_id[1] >= OLDEST_VIDEO_ID
    /\ attempts # <<>>

\* C6: a run that resolves the frontier at or above the floor, with the
\* budget not exceeded at the first check, attempts at least one ID, whatever
\* progress earlier runs with other frontiers left behind: the run does not
\* come to the floor with no ID attempted because the ranges block the window.
C6_NeverZeroAttempts ==
    (pc = "exit" /\ hist.resolved /\ latest_id[1] >= OLDEST_VIDEO_ID
        /\ hist.firstCheck = "ok" /\ hist.stop = "floor") => attempts # <<>>

\* C7 as stated: a run that resolves the frontier and attempts no ID appends
\* no range and leaves the set of IDs covered by the saved ranges as it was.
C7_ZeroAttemptsKeepCoverage ==
    (pc = "exit" /\ hist.resolved /\ attempts = <<>>) =>
        /\ Ranges(file) = hist.walkRanges
        /\ Covered(Ranges(file)) = Covered(Ranges(hist.fileAtStart))

\* C7, amended: a run that resolves the frontier and attempts no ID appends
\* no range and saves once; the saved ranges cover the IDs covered before the
\* run, unless the reset cleared the ranges in this run, and then the saved
\* ranges are empty.  Only last_known_id changes besides.
C7_ZeroAttemptsKeepOrReset ==
    (pc = "exit" /\ hist.resolved /\ attempts = <<>>) =>
        /\ hist.saves = 1
        /\ file = << [hist.loaded EXCEPT ![VIDEO_PREFIX] =
                        [processed_ranges |-> hist.walkRanges,
                         last_known_id |-> latest_id]] >>
        /\ IF ResetHappened
           THEN Ranges(file) = <<>>
           ELSE /\ Ranges(file) = hist.merged
                /\ Covered(Ranges(file)) = Covered(Ranges(hist.fileAtStart))

C7_Witness ==
    /\ pc = "exit"
    /\ hist.resolved
    /\ attempts = <<>>
    /\ ~ResetHappened
    /\ Ranges(file) # <<>>
    /\ file[1][VIDEO_PREFIX].last_known_id # hist.loaded[VIDEO_PREFIX].last_known_id

\* C8: the elapsed time is checked at the top of an iteration, before the
\* cursor is handled: once the check finds the budget exceeded, the ID at the
\* cursor is not attempted, no further ID is attempted in the run, and the
\* run goes on to commit and save.
C8_BudgetStops ==
    [][ /\ (pc = "while" /\ current_id >= OLDEST_VIDEO_ID /\ overBudget /\ pc' # pc) =>
               /\ pc' = "commit"
               /\ hist'.stop = "budget"
               /\ UNCHANGED <<current_id, end_id_this_run, attempts, written>>
        /\ (hist.stop = "budget" /\ pc # "exit") =>
               /\ pc = "commit"
               /\ attempts' = attempts
               /\ pc' # pc => /\ pc' = "exit"
                              /\ hist'.saves = 1
                              /\ file' = <<progress_data'>>
      ]_vars

C8_Witness ==
    /\ pc = "exit"
    /\ hist.stop = "budget"
    /\ attempts # <<>>
    /\ current_id >= OLDEST_VIDEO_ID
    /\ current_id \notin Covered(hist.walkRanges)
    /\ current_id \notin AttemptedIds
    /\ hist.saves = 1

\* C9: a per-ID metadata fetch that returns absence writes no metadata or
\* thumbnail file for the ID, still records the ID as end_id_this_run, moves
\* the cursor down by one and goes back to the top of the loop.
C9_AbsenceIsNotFatal ==
    [][ /\ (Len(attempts') > Len(attempts) /\ attempts'[Len(attempts')].absent) =>
               /\ attempts'[Len(attempts')].id = current_id
               /\ written' = written
               /\ end_id_this_run' = current_id
               /\ current_id' = current_id - 1
               /\ pc' = "while"
        /\ \A i \in 1..Len(attempts) :
               attempts[i].absent =>
                   \A ext \in {"xml", "jpg"} : <<attempts[i].id, ext>> \notin written
      ]_vars

C9_Witness ==
    /\ Len(attempts) >= 3
    /\ attempts[1].absent
    /\ ~attempts[2].absent
    /\ attempts[3].absent
    /\ <<attempts[2].id, "jpg">> \in written

\* C10: the saved processed_ranges of the sm prefix are sorted by low bound,
\* each with low <= high, and consecutive ranges neither overlap nor touch:
\* next.low > prev.high + 1.
C10_SavedRangesNormal ==
    LET r == Ranges(file) IN
        /\ \A i \in 1..Len(r) : r[i][1] <= r[i][2]
        /\ \A i \in 1..(Len(r) - 1) : r[i + 1][1] > r[i][2] + 1

C10_Witness ==
    /\ Len(Ranges(file)) >= 2
    /\ \E i \in 1..Len(Ranges(file)) : Ranges(file)[i][1] < Ranges(file)[i][2]

\* C11: starting from an empty progress record, after any sequence of runs
\* every ID inside a saved range has been attempted in some run (in this run,
\* or in an earlier run since the ranges were last cleared), so the committed
\* range covers no ID that was neither attempted in this run nor covered
\* before; and every saved range lies at or above the floor.
C11_CoveredWasAttempted ==
    (pc = "exit") =>
        /\ Covered(Ranges(file)) \subseteq (hist.earlier \cup AttemptedIds)
        /\ (attempts # <<>>) =>
               Covered(Ranges(file)) \subseteq
                   (Covered(hist.walkRanges) \cup AttemptedIds)
        /\ \A i \in 1..Len(Ranges(file)) : Ranges(file)[i][1] >= OLDEST_VIDEO_ID

C11_Witness ==
    /\ pc = "exit"
    /\ Len(attempts) >= 2
    /\ \E id \in Covered(Ranges(file)) :
          /\ id \notin AttemptedIds
          /\ end_id_this_run < id
          /\ id < start_id_this_run
    /\ OLDEST_VIDEO_ID \in AttemptedIds

\* The IDs a list of ranges covers when each pair is read low to high
CoveredEitherWay(ranges) ==
    UNION {SortPair(ranges[i])[1]..SortPair(ranges[i])[2] : i \in 1..Len(ranges)}

\* C12: _merge_ranges does not depend on the order of its input and is
\* idempotent: merging any reordering of a list gives the result of merging
\* the list, and merging a result gives the result back.
C12_MergeOrderIdempotent ==
    (ret # None) =>
        /\ merge_ranges(arg) = ret[1].output
        /\ merge_ranges(ret[1].output) = ret[1].output

C12_Witness ==
    /\ ret # None
    /\ Len(arg) = 3
    /\ arg # ret[1].input
    /\ arg[1][1] > arg[2][1]
    /\ ret[1].input[1][1] < ret[1].input[2][1]
    /\ Len(ret[1].output) = 2

\* C13: _merge_ranges combines two ranges exactly when next.low <=
\* last.high + 1 and covers exactly the IDs of its input: ranges that overlap
\* or touch become one range, ranges with an uncovered ID between them stay
\* apart; [10,20],[21,30] gives [10,30] and [10,20],[22,30] stays as it is.
C13_MergeCoversSame ==
    /\ merge_ranges(<< <<10, 20>>, <<21, 30>> >>) = << <<10, 30>> >>
    /\ merge_ranges(<< <<10, 20>>, <<22, 30>> >>) = << <<10, 20>>, <<22, 30>> >>
    /\ (ret # None) =>
           LET out == ret[1].output IN
           /\ Covered(out) = CoveredEitherWay(ret[1].input)
           /\ \A i \in 1..Len(out) : out[i][1] <= out[i][2]
           /\ \A i \in 1..(Len(out) - 1) : out[i + 1][1] > out[i][2] + 1

C13_Witness ==
    /\ ret # None
    /\ Len(ret[1].input) = 3
    /\ ret[1].input[1] = <<1, 3>>
    /\ ret[1].input[2] = <<2, 2>>
    /\ ret[1].output = << <<1, 3>> >>

\* C14: a run changes only the record of the sm prefix: every other key of
\* the loaded progress file is in the saved file with the value it had, and
\* no key is dropped or added.
C14_OtherKeysKept ==
    (hist.fileAtStart # <<>>) =>
        LET before == hist.fileAtStart[1] IN
        /\ DOMAIN file[1] = DOMAIN before
        /\ \A k \in DOMAIN before \ {VIDEO_PREFIX} : file[1][k] = before[k]
        /\ DOMAIN progress_data = DOMAIN before
        /\ \A k \in DOMAIN before \ {VIDEO_PREFIX} : progress_data[k] = before[k]

C14_Witness ==
    /\ pc = "exit"
    /\ hist.saves = 1
    /\ hist.earlier # {}
    /\ attempts # <<>>
    /\ "ch" \in DOMAIN file[1]
    /\ file[1][VIDEO_PREFIX] # hist.fileAtStart[1][VIDEO_PREFIX]

\* C15 as stated: one fetch makes at most RETRY_COUNT requests; a success
\* response (any 2xx status) returns the content at once, a 404 returns
\* absence at once, every other status or a transport error is followed by a
\* backoff and the next request, and after RETRY_COUNT failed requests the
\* fetch returns absence.
C15_SuccessReturnsAtOnce ==
    (ret # None) =>
        LET r == ret[1]
            decisive == {k \in 1..RETRY_COUNT : arg[k] \in {"200", "204", "404"}}
        IN  /\ 1 <= r.requests
            /\ r.requests <= RETRY_COUNT
            /\ IF decisive = {}
               THEN /\ r.result = "absent"
                    /\ r.requests = RETRY_COUNT
               ELSE LET first == CHOOSE k \in decisive : \A j \in decisive : k <= j
                    IN  /\ r.requests = first
                        /\ r.result = IF arg[first] = "404" THEN "absent" ELSE "content"

\* C15, amended: one fetch makes at most RETRY_COUNT requests: a 200 returns
\* the content at once, a 404 returns absence at once, any other status (the
\* other 2xx statuses too) or a transport error is followed by a backoff and
\* the next request, and after RETRY_COUNT failed requests the fetch returns
\* absence.
C15_FetchBounded ==
    (ret # None) =>
        LET r == ret[1]
            decisive == {k \in 1..RETRY_COUNT : arg[k] \in {"200", "404"}}
        IN  /\ 1 <= r.requests
            /\ r.requests <= RETRY_COUNT
            /\ r.result \in {"content", "absent"}
            /\ IF decisive = {}
               THEN /\ r.result = "absent"
                    /\ r.requests = RETRY_COUNT
                    /\ r.sleeps = RETRY_COUNT
               ELSE LET first == CHOOSE k \in decisive : \A j \in decisive : k <= j
                    IN  /\ r.requests = first
                        /\ r.sleeps = first - 1
                        /\ r.result = IF arg[first] = "200" THEN "content" ELSE "absent"

C15_Witness ==
    /\ ret # None
    /\ arg[1] = "500"
    /\ arg[2] = "204"
    /\ arg[3] = "error"
    /\ arg[4] = "200"
    /\ ret[1].requests = 4
    /\ ret[1].sleeps = 3
    /\ ret[1].result = "content"

Widths == <<1000000, 10000, 100>>

\* C16: for every id >= 1 the three bucket segments have widths 1,000,000 /
\* 10,000 / 100 and start at floor((id-1)/width)*width + 1; each bucket
\* [start, start+width-1] holds the id and lies inside the next wider one;
\* two ids get the same directory exactly when floor((id-1)/100) is equal;
\* 50567 gives 1-1000000 / 50001-60000 / 50501-50600 and 100 gives 1-100.
C16_ShardBuckets ==
    /\ get_path_for_id("sm", 50567, "xml") =
           <<"sm", "1-1000000", "50001-60000", "50501-50600", "50567.xml">>
    /\ get_path_for_id("sm", 100, "xml")[4] = "1-100"
    /\ (ret # None) =>
           /\ \A i \in 1..2 :
                  LET b == ret[1][i].buckets
                      id == arg[i]
                  IN  /\ \A j \in 1..3 :
                             /\ b[j] = ((id - 1) \div Widths[j]) * Widths[j] + 1
                             /\ b[j] % Widths[j] = 1
                             /\ b[j] <= id
                             /\ id <= b[j] + Widths[j] - 1
                             /\ ret[1][i].path[j + 1] =
                                    ToString(b[j]) \o "-" \o ToString(b[j] + Widths[j] - 1)
                      /\ \A j \in 1..2 :
                             /\ b[j] <= b[j + 1]
                             /\ b[j + 1] + Widths[j + 1] - 1 <= b[j] + Widths[j] - 1
           /\ (SubSeq(ret[1][1].path, 1, 4) = SubSeq(ret[1][2].path, 1, 4))
                  <=> ((arg[1] - 1) \div 100 = (arg[2] - 1) \div 100)

C16_Witness ==
    /\ ret # None
    /\ arg = <<100, 1>>
    /\ ret[1][1].path = <<"sm", "1-1000000", "1-10000", "1-100", "100.xml">>
    /\ SubSeq(ret[1][1].path, 1, 4) = SubSeq(ret[1][2].path, 1, 4)

\* C17: within one run the attempted IDs are strictly decreasing (none is
\* attempted twice) and every change of the cursor lowers it, so the cursor
\* stays below every ID attempted so far and a skip-jump never goes back to
\* an ID it has skipped past or attempted.
C17_CursorOnlyDecreases ==
    [][Walking =>
          /\ current_id' <= current_id
          /\ (pc' = "while" /\ pc # "while") => current_id' < current_id
          /\ \A i \in 1..Len(attempts') :
                 /\ attempts'[i].id > current_id'
                 /\ \A j \in 1..(i - 1) : attempts'[j].id > attempts'[i].id]_vars

C17_Witness ==
    /\ pc = "while"
    /\ hist.last = "skip"
    /\ Len(attempts) >= 2
    /\ \E i \in 1..(Len(attempts) - 1) : attempts[i].id > attempts[i + 1].id + 1
    /\ current_id < attempts[Len(attempts)].id - 1

\* C18: a run that resolved the frontier writes the progress file exactly
\* once, after the walk has stopped and the range of the run has been
\* appended and merged; while it walks (and until the commit) nothing is
\* written, so the file is still what it was before the run.
C18_OneWriteAfterWalk ==
    hist.resolved =>
        /\ pc # "exit" => (hist.saves = 0 /\ file = hist.fileAtStart)
        /\ pc = "exit" =>
              /\ hist.saves = 1
              /\ file = <<progress_data>>
              /\ hist.stop \in {"budget", "floor"}
              /\ Ranges(file) =
                     IF attempts = <<>> THEN hist.walkRanges
                     ELSE merge_ranges(Append(hist.walkRanges,
                              <<attempts[Len(attempts)].id, start_id_this_run>>))

C18_Witness ==
    /\ pc = "exit"
    /\ hist.resolved
    /\ hist.saves = 1
    /\ hist.fileAtStart # <<>>
    /\ file # hist.fileAtStart
    /\ Len(attempts) >= 2
    /\ Len(Ranges(file)) >= 2

\* C19 as stated: a run never stops on budget directly after a skip.
C19_NoBudgetStopAfterSkip ==
    ~(hist.stop = "budget" /\ hist.last = "skip")

\* C19: a skip-jump attempts no ID and leaves end_id_this_run alone; it
\* moves the cursor to lo - 1 and goes back to the loop head, where the floor
\* test and then the elapsed-time check come before any further skip or
\* attempt, so a run whose budget is gone stops on budget right after a skip.
C19_SkipReturnsToLoopHead ==
    [][/\ (pc = "scan" /\ pc' # pc /\ FirstContaining(processed_ranges, current_id) # <<>>) =>
              /\ pc' = "while"
              /\ current_id' = FirstContaining(processed_ranges, current_id)[1][1] - 1
              /\ end_id_this_run' = end_id_this_run
              /\ attempts' = attempts
              /\ written' = written
       /\ (pc = "while" /\ pc' # pc /\ hist.last = "skip") =>
              IF current_id < OLDEST_VIDEO_ID
              THEN pc' = "commit" /\ hist'.stop = "floor"
              ELSE IF overBudget
              THEN pc' = "commit" /\ hist'.stop = "budget"
              ELSE pc' = "scan" /\ hist'.stop = "none"]_vars

C19_Witness ==
    /\ pc = "exit"
    /\ hist.stop = "budget"
    /\ hist.last = "skip"
    /\ attempts # <<>>
    /\ current_id >= OLDEST_VIDEO_ID

\* C20: every run terminates: every pass of the loop (skip or attempt)
\* lowers the cursor, and a run that is walking reaches the commit, stopped
\* at the floor or on budget, and then the end of run(), whatever the list
\* of processed ranges.
C20_RunTerminates ==
    /\ [][(pc \in {"scan", "process"} /\ pc' = "while") => (current_id' < current_id)]_vars
    /\ Walking ~> (pc = "exit" /\ hist.stop \in {"floor", "budget"} /\ hist.saves = 1)

C20_Witness ==
    /\ pc = "exit"
    /\ hist.stop = "floor"
    /\ hist.saves = 1
    /\ Len(hist.walkRanges) >= 2
    /\ attempts # <<>>
    /\ current_id < OLDEST_VIDEO_ID

====
